---- MODULE Spec2Model ----
(***************************************************************************)
(* Model of 250526_jpo_oa.py: the batch loop of main(), the JPO token      *)
(* exchange, the refusal-notice download, the citation extraction, the     *)
(* OpenAI normalisation call and the per-publication ledger JP<pub>A.txt.  *)
(*                                                                         *)
(* Text is modelled by TLA+ strings.  The two literal markers searched by  *)
(* gather_citation_section are written with ASCII stand-ins.               *)
(***************************************************************************)
EXTENDS Integers, Sequences, FiniteSets, TLC

\* ------------------------------------------------------------------ bounds
\* Longest entry list read from the Excel sheet.
MaxEntries == 2
\* Longest candidate list handed to the merge in MergeSpec.
MaxCands == 2
\* Longest document, in tokens of DocTokens, handed to ExtractSpec.
MaxDocTokens == 3

\* ------------------------------------------------------- program constants
\* expiry = time.time() + 3600
Lifetime == 3600
\* time.time() > expiry - 60
SafetyMargin == 60
\* raw[:12000]
OracleBudget == 12000

\* ------------------------------------------------------------ input sets
Aids == {"1"}
Apps == {"10", "20"}
Pubs == {"7", "8"}
\* Two publications in one folder, one publication in two folders.
EntrySet == {e \in [aid : Aids, app : Apps, pub : Pubs] : e.app = "10" \/ e.pub = "7"}

RECURSIVE SeqsUpTo(_, _)
SeqsUpTo(S, n) ==
    IF n = 0 THEN {<<>>}
    ELSE LET R == SeqsUpTo(S, n - 1)
         IN  R \cup {Append(r, x) : r \in {q \in R : Len(q) = n - 1}, x \in S}

EntryLists == SeqsUpTo(EntrySet, MaxEntries) \ {<<>>}

\* Data rows of the sheet, columns A, B, C as str() shows them ("" for an
\* empty cell): the entries, one row read as floats, a row with an empty A,
\* a row with an empty B and a row with a blank C.
RowSet ==
    {[a |-> e.aid, b |-> e.app, c |-> e.pub] : e \in EntrySet}
    \cup {[a |-> "1.0", b |-> "10.0", c |-> "7.0"],
          [a |-> "", b |-> "10", c |-> "7"],
          [a |-> "1", b |-> "", c |-> "7"],
          [a |-> "1", b |-> "20", c |-> " "]}
RowLists == SeqsUpTo(RowSet, MaxEntries)

\* Seconds a download or a chat completion, with the file work around it, can
\* take: none, or up to the refresh boundary.  A token exchange is taken to
\* be instantaneous: expiry is computed from time.time() after it returns, so
\* its duration only shifts clock and expiry together.
Delays == {0, Lifetime - SafetyMargin}

\* Stand-ins for the two literal headings of the refusal notice.
OpenMarker == "<L>"
CloseMarker == "<S>"

\* Decoded XML texts: no heading, both headings around a citation, both
\* headings around blanks only.
DocTexts == {"h", "h<L>c<S>t", "h<L> <S>t"}
XmlNames == {"a.xml", "b.xml"}
\* The .xml members of a downloaded ZIP, by base name: none, one document,
\* or a blank section and a section that runs to the end of its document.
Zips == {[n \in {} |-> "h"]}
        \cup {[n \in {"a.xml"} |-> t] : t \in DocTexts}
        \cup {[n \in XmlNames |-> IF n = "a.xml" THEN "h<L> <S>t" ELSE "h<L>d"]}

\* Documents of ExtractSpec: every text of at most MaxDocTokens tokens.
DocTokens == {"h", " ", OpenMarker, CloseMarker}

RECURSIVE ConcatAll(_)
ConcatAll(q) == IF Len(q) = 0 THEN "" ELSE q[1] \o ConcatAll(Tail(q))

TokenTexts == {ConcatAll(q) : q \in SeqsUpTo(DocTokens, MaxDocTokens)}
\* A folder with a.xml alone or with a.xml and b.xml.
TokenFolders ==
    {[n \in {"a.xml"} |-> t] : t \in TokenTexts}
    \cup {[n \in XmlNames |-> IF n = "a.xml" THEN t ELSE u] :
             t \in TokenTexts, u \in TokenTexts}

\* message.content of the chat completion.
OracleTexts == {"", " \n", "X", "X\nY\nX\nZ", " Y \n\nJP7A\n"}

\* Candidate identifiers of MergeSpec.
CandIds == {"X", "Y", "JP7A"}
CandLists == SeqsUpTo(CandIds, MaxCands)

\* ------------------------------------------------------------- text helpers
IsSpace(c) == c \in {" ", "\n", "\t"}

RECURSIVE LStrip(_)
LStrip(s) ==
    IF Len(s) = 0 THEN s
    ELSE IF IsSpace(SubSeq(s, 1, 1)) THEN LStrip(SubSeq(s, 2, Len(s)))
    ELSE s

RECURSIVE RStrip(_)
RStrip(s) ==
    IF Len(s) = 0 THEN s
    ELSE IF IsSpace(SubSeq(s, Len(s), Len(s))) THEN RStrip(SubSeq(s, 1, Len(s) - 1))
    ELSE s

\* str.strip()
Strip(s) == RStrip(LStrip(s))

RECURSIVE FindFrom(_, _, _)
FindFrom(s, pat, k) ==
    IF k + Len(pat) - 1 > Len(s) THEN 0
    ELSE IF SubSeq(s, k, k + Len(pat) - 1) = pat THEN k
    ELSE FindFrom(s, pat, k + 1)

\* re.search(literal, s): start index of the first occurrence, 0 when none.
Find(s, pat) == FindFrom(s, pat, 1)

\* str.splitlines()
RECURSIVE SplitLines(_)
SplitLines(s) ==
    IF Len(s) = 0 THEN <<>>
    ELSE LET k == Find(s, "\n")
         IN  IF k = 0 THEN <<s>>
             ELSE <<SubSeq(s, 1, k - 1)>> \o SplitLines(SubSeq(s, k + 1, Len(s)))

RECURSIVE JoinNL(_)
\* '\n'.join(buf)
JoinNL(buf) ==
    IF Len(buf) = 0 THEN ""
    ELSE IF Len(buf) = 1 THEN buf[1]
    ELSE buf[1] \o "\n" \o JoinNL(Tail(buf))

RECURSIVE SelectNonBlankStripped(_)
\* [ln.strip() for ln in lines if ln.strip()]
SelectNonBlankStripped(lines) ==
    IF Len(lines) = 0 THEN <<>>
    ELSE LET t == Strip(lines[1])
         IN  (IF t = "" THEN <<>> ELSE <<t>>) \o SelectNonBlankStripped(Tail(lines))

Range(f) == {f[x] : x \in DOMAIN f}

\* --------------------------------------------------------------- file names
\* os.path.join(base_dir, f'{aid}_{app}')
Folder(e) == e.aid \o "_" \o e.app
Folders == {Folder(e) : e \in EntrySet}

\* f'JP{pub}A'
Seed(pub) == "JP" \o pub \o "A"

PubTxtName(pub) == Seed(pub) \o ".txt"
\* os.path.join(folder, f'JP{pub}A.txt')
PubTxtPath(folder, pub) == folder \o "/" \o PubTxtName(pub)

\* -------------------------------------------------------------------- state
VARIABLES
    rows,        \* load_entries: the data rows of the sheet not yet loaded
    section,     \* append_citations: raw, with the os.listdir order behind it
    entries,     \* main: the (aid, app, pub) tuples loaded from the sheet
    i,           \* main: 1-based index of the entry of the for loop
    pc,          \* main: position in main()
    clock,       \* time.time()
    expiry,      \* main: expiry
    access,      \* main: access (token pairs are numbered by issue)
    refresh,     \* main: refresh
    issued,      \* token endpoint: number of token pairs issued so far
    tokenState,  \* outcome of the token exchanges so far
    exc,         \* the function whose exception ended the process, "" if none
    xml,         \* folder -> (base name -> decoded text) of its .xml files
    ledger,      \* path of a JP<pub>A.txt that exists -> its lines
    ids,         \* append_citations: ids of the last call that reached the merge
    calls,       \* requests sent since the current loop iteration began
    log          \* messages logged since the current loop iteration began

vars == <<rows, section, entries, i, pc, clock, expiry, access, refresh, issued, tokenState,
          exc, xml, ledger, ids, calls, log>>

tokenVars == <<expiry, access, refresh, issued, tokenState>>
fileVars == <<xml, ledger, ids>>

\* ------------------------------------------------------------ Dedup ledger
\* Variant of ensure_pub_txt without the os.path.exists test.
EnsurePubTxtAlways(files, folder, pub) ==
    LET path == PubTxtPath(folder, pub)
    IN  [q \in DOMAIN files \cup {path} |->
            IF q = path THEN <<Seed(pub)>> ELSE files[q]]

\* ensure_pub_txt on the file system: create with the seed line if absent.
EnsurePubTxt(files, folder, pub) ==
    LET path == PubTxtPath(folder, pub)
    IN  IF path \in DOMAIN files THEN files
        ELSE [q \in DOMAIN files \cup {path} |->
                 IF q = path THEN <<Seed(pub)>> ELSE files[q]]

\* {ln.strip() for ln in f if ln.strip()}
Existing(lines) == {Strip(ln) : ln \in Range(lines)} \ {""}

\* Variant of new without the membership test.
NewIdsUnfiltered(lines, cands) == cands

\* new = [i for i in ids if i not in existing]
NewIds(lines, cands) ==
    LET existing == Existing(lines)
    IN  SelectSeq(cands, LAMBDA c : c \notin existing)

\* Variant of the append that opens the file with mode 'w'.
MergeLinesOverwrite(lines, cands) ==
    IF NewIds(lines, cands) = <<>> THEN lines ELSE NewIds(lines, cands)

\* append_citations from ensure_pub_txt on: the lines after the append.
MergeLines(lines, cands) == lines \o NewIds(lines, cands)

MergeInto(files, folder, pub, cands) ==
    LET ensured == EnsurePubTxt(files, folder, pub)
        path == PubTxtPath(folder, pub)
    IN  [ensured EXCEPT ![path] = MergeLines(ensured[path], cands)]

\* append_citations once ids is known: nothing is touched when ids is empty.
AppendCitationsFrom(files, folder, pub, cands) ==
    IF cands = <<>> THEN files ELSE MergeInto(files, folder, pub, cands)

\* ------------------------------------------------------ citation extraction
RECURSIVE Perms(_)
\* The orders in which os.listdir may deliver a set of names.
Perms(S) ==
    IF S = {} THEN {<<>>}
    ELSE UNION {{<<x>> \o p : p \in Perms(S \ {x})} : x \in S}

\* Variant of the cut that searches the closing heading in the whole text.
ContributionCutAnywhere(txt) ==
    LET m == Find(txt, OpenMarker)
    IN  IF m = 0 THEN <<>>
        ELSE LET seg == SubSeq(txt, m + Len(OpenMarker), Len(txt))
                 m2 == Find(txt, CloseMarker)
             IN  IF m2 > 0 THEN <<SubSeq(seg, 1, m2 - 1)>> ELSE <<seg>>

\* The part of one document kept by gather_citation_section, as a list of
\* zero or one segment.
Contribution(txt) ==
    LET m == Find(txt, OpenMarker)
    IN  IF m = 0 THEN <<>>
        ELSE LET seg == SubSeq(txt, m + Len(OpenMarker), Len(txt))
                 m2 == Find(seg, CloseMarker)
             IN  IF m2 > 0 THEN <<SubSeq(seg, 1, m2 - 1)>> ELSE <<seg>>

RECURSIVE GatherBuf(_, _)
\* buf of gather_citation_section for the files listed in this order.
GatherBuf(files, order) ==
    IF Len(order) = 0 THEN <<>>
    ELSE Contribution(files[order[1]]) \o GatherBuf(files, Tail(order))

\* The buffers gather_citation_section can build for a folder.
GatherBufs(files) == {GatherBuf(files, o) : o \in Perms(DOMAIN files)}

\* The value gather_citation_section returns when os.listdir delivers the
\* files in this order: None, or the segments joined by '\n'.
GatherSection(files, order) ==
    LET buf == GatherBuf(files, order)
    IN  [none |-> buf = <<>>, text |-> JoinNL(buf), order |-> order]

NotGathered == [none |-> TRUE, text |-> "", order |-> <<>>]

\* raw[:12000]
Truncate(raw) == IF Len(raw) > OracleBudget THEN SubSeq(raw, 1, OracleBudget) ELSE raw

\* gpt_normalize's parse of the completion text.
ParseIds(txt) == SelectNonBlankStripped(SplitLines(txt))

\* ------------------------------------------------------------ token refresh
\* Variant of the refresh test with >= for >.
IsDueInclusive(now, exp) == now >= exp - SafetyMargin

\* Variant of the refresh test with < for >.
IsDueReversed(now, exp) == now < exp - SafetyMargin

\* time.time() > expiry - 60
IsDueForRefresh(now, exp) == now > exp - SafetyMargin

\* ------------------------------------------------------------ load_entries
\* pd.isna(x) or str(x).strip() == ''
IsEmptyCell(x) == Strip(x) = ""

\* norm: drop a trailing '.0'
Norm(x) ==
    IF Len(x) >= 2 /\ SubSeq(x, Len(x) - 1, Len(x)) = ".0"
    THEN SubSeq(x, 1, Len(x) - 2)
    ELSE x

RECURSIVE LoadRows(_)
\* The for loop of load_entries: out, and whether no row raised.
LoadRows(rs) ==
    IF Len(rs) = 0 THEN [ok |-> TRUE, out |-> <<>>]
    ELSE IF IsEmptyCell(rs[1].a) THEN [ok |-> TRUE, out |-> <<>>]
    ELSE IF IsEmptyCell(rs[1].b) \/ IsEmptyCell(rs[1].c) THEN [ok |-> FALSE, out |-> <<>>]
    ELSE LET rest == LoadRows(Tail(rs))
             e == [aid |-> Norm(rs[1].a), app |-> Norm(rs[1].b), pub |-> Norm(rs[1].c)]
         IN  [ok |-> rest.ok, out |-> <<e>> \o rest.out]

\* load_entries returns (a row that raises or an empty out is a ValueError).
LoadReturns(rs) == LoadRows(rs).ok /\ LoadRows(rs).out # <<>>

\* ---------------------------------------------------------------- main()
Cur == entries[i]
CurFolder == Folder(Cur)
CurPath == PubTxtPath(CurFolder, Cur.pub)

\* A request and the bearer or refresh token it presents (0: none).
Call(kind, token) == [kind |-> kind, token |-> token]

Init ==
    /\ rows \in RowLists
    /\ section = NotGathered
    /\ entries = <<>>
    /\ i = 1
    /\ pc = "load"
    /\ clock = 0
    /\ expiry = 0
    /\ access = 0
    /\ refresh = 0
    /\ issued = 0
    /\ tokenState = "UNAUTHENTICATED"
    /\ exc = ""
    /\ xml = [f \in Folders |-> [n \in {} |-> ""]]
    /\ ledger = [q \in {} |-> <<>>]
    /\ ids = <<>>
    /\ calls = <<>>
    /\ log = <<>>

\* Variant of a failing load_entries that drops the offending row and the
\* rows after it instead of raising.
LoadFailsLenient ==
    /\ pc = "load"
    /\ ~LoadRows(rows).ok
    /\ LoadRows(rows).out # <<>>
    /\ entries' = LoadRows(rows).out
    /\ pc' = "auth"
    /\ UNCHANGED <<rows, section, i, clock, tokenVars, exc, fileVars, calls, log>>

\* choose_excel_file: load_entries returns the entries.
LoadOk ==
    /\ pc = "load"
    /\ LoadReturns(rows)
    /\ entries' = LoadRows(rows).out
    /\ rows' = <<>>
    /\ pc' = "auth"
    /\ UNCHANGED <<section, i, clock, tokenVars, exc, fileVars, calls, log>>

\* choose_excel_file: load_entries raises ValueError; nothing catches it.
LoadFails ==
    /\ pc = "load"
    /\ ~LoadReturns(rows)
    /\ exc' = "load_entries"
    /\ pc' = "crashed"
    /\ UNCHANGED <<rows, section, entries, i, clock, tokenVars, fileVars, calls, log>>

\* get_tokens returns a pair; expiry = time.time() + 3600.
GetTokensOk ==
    /\ pc = "auth"
    /\ calls' = Append(calls, Call("password_grant", 0))
    /\ expiry' = clock + Lifetime
    /\ issued' = issued + 1
    /\ access' = issued'
    /\ refresh' = issued'
    /\ tokenState' = "ACTIVE"
    /\ pc' = "loop"
    /\ UNCHANGED <<rows, section, entries, i, clock, exc, fileVars, log>>

\* get_tokens raises: main prints and returns.
GetTokensFails ==
    /\ pc = "auth"
    /\ calls' = Append(calls, Call("password_grant", 0))
    /\ tokenState' = "FAILED"
    /\ pc' = "auth_failed"
    /\ UNCHANGED <<rows, section, entries, i, clock, expiry, access, refresh, issued, exc,
                   fileVars, log>>

\* The for loop is exhausted.
LoopDone ==
    /\ pc = "loop"
    /\ i > Len(entries)
    /\ pc' = "done"
    /\ UNCHANGED <<rows, section, entries, i, clock, tokenVars, exc, fileVars, calls, log>>

\* The refresh test is false: the token pair is kept.
RefreshNotDue ==
    /\ pc = "loop"
    /\ i <= Len(entries)
    /\ ~IsDueForRefresh(clock, expiry)
    /\ calls' = <<>>
    /\ log' = <<>>
    /\ section' = NotGathered
    /\ pc' = "download"
    /\ UNCHANGED <<rows, entries, i, clock, tokenVars, exc, fileVars>>

\* Variant of the refresh that keeps the old access token and expiry.
RefreshOkKeepsAccess ==
    /\ pc = "loop"
    /\ i <= Len(entries)
    /\ IsDueForRefresh(clock, expiry)
    /\ calls' = <<Call("refresh_grant", refresh)>>
    /\ log' = <<>>
    /\ section' = NotGathered
    /\ issued' = issued + 1
    /\ refresh' = issued'
    /\ pc' = "download"
    /\ UNCHANGED <<rows, entries, i, clock, expiry, access, tokenState,
                   exc, fileVars>>

\* The refresh test is true and refresh_token returns a new pair.
RefreshOk ==
    /\ pc = "loop"
    /\ i <= Len(entries)
    /\ IsDueForRefresh(clock, expiry)
    /\ calls' = <<Call("refresh_grant", refresh)>>
    /\ log' = <<>>
    /\ section' = NotGathered
    /\ expiry' = clock + Lifetime
    /\ issued' = issued + 1
    /\ access' = issued'
    /\ refresh' = issued'
    /\ pc' = "download"
    /\ UNCHANGED <<rows, entries, i, clock, tokenState, exc, fileVars>>

\* Variant of the failing refresh in which the loop goes on with the old pair.
RefreshFailsIgnored ==
    /\ pc = "loop"
    /\ i <= Len(entries)
    /\ IsDueForRefresh(clock, expiry)
    /\ calls' = <<Call("refresh_grant", refresh)>>
    /\ log' = <<>>
    /\ section' = NotGathered
    /\ tokenState' = "FAILED"
    /\ pc' = "download"
    /\ UNCHANGED <<rows, entries, i, clock, expiry, access, refresh, issued, exc, fileVars>>

\* The refresh test is true and refresh_token raises: nothing catches it.
RefreshFails ==
    /\ pc = "loop"
    /\ i <= Len(entries)
    /\ IsDueForRefresh(clock, expiry)
    /\ calls' = <<Call("refresh_grant", refresh)>>
    /\ log' = <<>>
    /\ section' = NotGathered
    /\ tokenState' = "FAILED"
    /\ exc' = "refresh_token"
    /\ pc' = "crashed"
    /\ UNCHANGED <<rows, entries, i, clock, expiry, access, refresh, issued, fileVars>>

\* download_xml: 200 with a ZIP body; its .xml members are written over
\* the folder's files of the same base name.
DownloadOk ==
    /\ pc = "download"
    /\ calls' = Append(calls, Call("fetch", access))
    /\ \E d \in Delays : clock' = clock + d
    /\ \E z \in Zips :
          xml' = [xml EXCEPT ![CurFolder] =
                    [n \in DOMAIN z \cup DOMAIN @ |->
                        IF n \in DOMAIN z THEN z[n] ELSE @[n]]]
    /\ pc' = "ensure"
    /\ UNCHANGED <<rows, section, entries, i, tokenVars, exc, ledger, ids, log>>

\* download_xml: another status or content type; a warning is logged.
DownloadRejected ==
    /\ pc = "download"
    /\ calls' = Append(calls, Call("fetch", access))
    /\ \E d \in Delays : clock' = clock + d
    /\ log' = Append(log, "download_failed")
    /\ pc' = "ensure"
    /\ UNCHANGED <<rows, section, entries, i, tokenVars, exc, fileVars>>

\* download_xml: requests.get raises (connection error, timeout); neither
\* download_xml nor main catches it.
DownloadRaises ==
    /\ pc = "download"
    /\ calls' = Append(calls, Call("fetch", access))
    /\ exc' = "download_xml"
    /\ pc' = "crashed"
    /\ UNCHANGED <<rows, section, entries, i, clock, tokenVars, fileVars, log>>

\* Variant of main without its own ensure_pub_txt call.
EnsureLedgerSkipped ==
    /\ pc = "ensure"
    /\ pc' = "append"
    /\ UNCHANGED <<rows, section, entries, i, clock, tokenVars, exc, fileVars,
                   calls, log>>

\* main: ensure_pub_txt(folder, pub)
EnsureLedger ==
    /\ pc = "ensure"
    /\ ledger' = EnsurePubTxt(ledger, CurFolder, Cur.pub)
    /\ pc' = "append"
    /\ UNCHANGED <<rows, section, entries, i, clock, tokenVars, exc, xml, ids, calls, log>>

\* append_citations returns: the for loop takes the next entry.
NextEntry ==
    /\ i' = i + 1
    /\ pc' = "loop"

\* append_citations: gather_citation_section returns None.
AppendNoSection ==
    /\ pc = "append"
    /\ \E o \in Perms(DOMAIN xml[CurFolder]) :
          /\ section' = GatherSection(xml[CurFolder], o)
          /\ section'.none
    /\ log' = Append(log, "no_section")
    /\ NextEntry
    /\ UNCHANGED <<rows, entries, clock, tokenVars, exc, fileVars, calls>>

\* Variant of the blank segment without gpt_normalize's early return: the
\* segment is posted and the completion holds no identifier.
AppendBlankPosted ==
    /\ pc = "append"
    /\ \E o \in Perms(DOMAIN xml[CurFolder]) :
          /\ section' = GatherSection(xml[CurFolder], o)
          /\ ~section'.none
          /\ Strip(section'.text) = ""
    /\ calls' = Append(calls, Call("oracle", 0))
    /\ log' = Append(log, "no_ids")
    /\ NextEntry
    /\ UNCHANGED <<rows, entries, clock, tokenVars, exc, fileVars>>

\* append_citations: the segment is blank, gpt_normalize returns [] at once.
AppendBlank ==
    /\ pc = "append"
    /\ \E o \in Perms(DOMAIN xml[CurFolder]) :
          /\ section' = GatherSection(xml[CurFolder], o)
          /\ ~section'.none
          /\ Strip(section'.text) = ""
    /\ log' = Append(log, "no_ids")
    /\ NextEntry
    /\ UNCHANGED <<rows, entries, clock, tokenVars, exc, fileVars, calls>>

\* gpt_normalize posts the head of a segment that is not blank.
OracleCalled ==
    /\ pc = "append"
    /\ \E o \in Perms(DOMAIN xml[CurFolder]) :
          /\ section' = GatherSection(xml[CurFolder], o)
          /\ ~section'.none
          /\ Strip(section'.text) # ""
    /\ calls' = Append(calls, Call("oracle", 0))
    /\ \E d \in Delays : clock' = clock + d

\* Variant of the failing chat completion without the try/except.
AppendOracleFailsUncaught ==
    /\ OracleCalled
    /\ log' = Append(log, "oracle_failed")
    /\ exc' = "gpt_normalize"
    /\ pc' = "crashed"
    /\ UNCHANGED <<rows, entries, i, tokenVars, fileVars>>

\* append_citations: gpt_normalize raises; the error is logged.
AppendOracleFails ==
    /\ OracleCalled
    /\ log' = Append(log, "oracle_failed")
    /\ NextEntry
    /\ UNCHANGED <<rows, entries, tokenVars, exc, fileVars>>

\* append_citations: the completion holds no identifier.
AppendNoIds ==
    /\ OracleCalled
    /\ \E txt \in OracleTexts : ParseIds(txt) = <<>>
    /\ log' = Append(log, "no_ids")
    /\ NextEntry
    /\ UNCHANGED <<rows, entries, tokenVars, exc, fileVars>>

\* append_citations: the identifiers absent from the ledger are appended.
AppendMerge ==
    /\ OracleCalled
    /\ \E txt \in OracleTexts :
          /\ ParseIds(txt) # <<>>
          /\ ids' = ParseIds(txt)
    /\ ledger' = AppendCitationsFrom(ledger, CurFolder, Cur.pub, ids')
    /\ log' = Append(log, IF ledger' = ledger THEN "no_new" ELSE "appended")
    /\ NextEntry
    /\ UNCHANGED <<rows, entries, tokenVars, exc, xml>>

Next ==
    \/ LoadOk
    \/ LoadFails
    \/ GetTokensOk
    \/ GetTokensFails
    \/ LoopDone
    \/ RefreshNotDue
    \/ RefreshOk
    \/ RefreshFails
    \/ DownloadOk
    \/ DownloadRejected
    \/ DownloadRaises
    \/ EnsureLedger
    \/ AppendNoSection
    \/ AppendBlank
    \/ AppendOracleFails
    \/ AppendNoIds
    \/ AppendMerge

Spec == Init /\ [][Next]_vars

\* ------------------------------------------------------------- merge alone
\* ensure_pub_txt and the merge of append_citations applied, in any order and
\* any number of times, to the ledger of one entry with every candidate list
\* of CandLists.
MergeInit ==
    /\ rows = <<>>
    /\ section = NotGathered
    /\ entries \in {<<e>> : e \in {x \in EntrySet : x.app = "10"}}
    /\ i = 1
    /\ pc = "merge"
    /\ clock = 0
    /\ expiry = 0
    /\ access = 0
    /\ refresh = 0
    /\ issued = 0
    /\ tokenState = "UNAUTHENTICATED"
    /\ exc = ""
    /\ xml = [f \in Folders |-> [n \in {} |-> ""]]
    /\ ledger = [q \in {} |-> <<>>]
    /\ ids = <<>>
    /\ calls = <<>>
    /\ log = <<>>

MergeEnsure ==
    /\ pc = "merge"
    /\ ledger' = EnsurePubTxt(ledger, CurFolder, Cur.pub)
    /\ UNCHANGED <<rows, section, entries, i, pc, clock, tokenVars, exc, xml, ids, calls, log>>

MergeCandidates ==
    /\ pc = "merge"
    /\ \E c \in CandLists :
          /\ ids' = c
          /\ ledger' = AppendCitationsFrom(ledger, CurFolder, Cur.pub, c)
    /\ UNCHANGED <<rows, section, entries, i, pc, clock, tokenVars, exc, xml, calls, log>>

MergeNext ==
    \/ MergeEnsure
    \/ MergeCandidates

MergeSpec == MergeInit /\ [][MergeNext]_vars

\* -------------------------------------------------------- extraction alone
\* gather_citation_section applied to a folder holding one or two documents
\* of TokenTexts.
ExtractInit ==
    /\ rows = <<>>
    /\ section = NotGathered
    /\ entries = <<[aid |-> "1", app |-> "10", pub |-> "7"]>>
    /\ i = 1
    /\ pc = "extract"
    /\ clock = 0
    /\ expiry = 0
    /\ access = 0
    /\ refresh = 0
    /\ issued = 0
    /\ tokenState = "UNAUTHENTICATED"
    /\ exc = ""
    /\ \E docs \in TokenFolders :
          xml = [f \in Folders |-> IF f = CurFolder THEN docs ELSE [n \in {} |-> ""]]
    /\ ledger = [q \in {} |-> <<>>]
    /\ ids = <<>>
    /\ calls = <<>>
    /\ log = <<>>

ExtractGather ==
    /\ pc = "extract"
    /\ \E o \in Perms(DOMAIN xml[CurFolder]) :
          section' = GatherSection(xml[CurFolder], o)
    /\ pc' = "extracted"
    /\ UNCHANGED <<rows, entries, i, clock, tokenVars, exc, fileVars, calls, log>>

ExtractNext == ExtractGather

ExtractSpec == ExtractInit /\ [][ExtractNext]_vars

\* ------------------------------------------------------------- exit status
\* main() has ended: by falling off its end, by the return after a failed
\* get_tokens, or by an exception nothing catches.
Terminated == pc \in {"done", "auth_failed", "crashed"}

\* The exit status of the process: 1 after an uncaught exception, 0 after
\* main() returned.
ExitStatus == IF pc = "crashed" THEN 1 ELSE 0

\* ------------------------------------------------------------------ claims
Last(q) == q[Len(q)]

IsPrefix(a, b) == Len(a) <= Len(b) /\ SubSeq(b, 1, Len(a)) = a

RECURSIVE FirstOccurrences(_)
\* q without the later repetitions of its elements.
FirstOccurrences(q) ==
    IF Len(q) = 0 THEN <<>>
    ELSE LET front == FirstOccurrences(SubSeq(q, 1, Len(q) - 1))
         IN  IF Last(q) \in Range(front) THEN front ELSE Append(front, Last(q))

\* The step of append_citations that reaches the merge of lines 220-227.
MergeStep ==
    /\ pc = "append"
    /\ log' # log
    /\ Last(log') \in {"appended", "no_new"}

\* C1: a merge appends exactly the candidates that are not yet in the ledger,
\* each one once, in the order of their first occurrence in the list.
C1_MergeAppendsEachNewOnce ==
    [][MergeStep =>
         ledger'[CurPath] =
             ledger[CurPath] \o FirstOccurrences(NewIds(ledger[CurPath], ids'))]_vars

\* C2: no ledger ever holds the same trimmed line twice.
C2_NoDuplicateLines ==
    \A p \in DOMAIN ledger :
        \A a, b \in 1..Len(ledger[p]) :
            a # b => Strip(ledger[p][a]) # Strip(ledger[p][b])

\* C3: merging the candidate list of the last merge once more leaves the
\* ledger as that merge left it.
C3_MergeIdempotent ==
    AppendCitationsFrom(ledger, CurFolder, Cur.pub, ids) = ledger

\* A list with a repeated identifier has been merged into a ledger that
\* already held more than its seed.
C3_Witness ==
    /\ pc = "merge"
    /\ ids = <<"X", "X">>
    /\ CurPath \in DOMAIN ledger
    /\ Len(ledger[CurPath]) > 3

\* The publication a ledger path belongs to.
PubsByPath ==
    [p \in {PubTxtPath(Folder(x), x.pub) : x \in EntrySet} |->
        {e.pub : e \in {x \in EntrySet : PubTxtPath(Folder(x), x.pub) = p}}]

PubsOfPath(p) == IF p \in DOMAIN PubsByPath THEN PubsByPath[p] ELSE {}

\* C4: every step keeps each ledger, extends it at its end only, and leaves
\* 'JP' + publication number + 'A' as its first line.
C4_AppendOnlyFixedSeed ==
    [][/\ \A p \in DOMAIN ledger :
            /\ p \in DOMAIN ledger'
            /\ IsPrefix(ledger[p], ledger'[p])
       /\ \A p \in DOMAIN ledger' :
            /\ Len(ledger'[p]) >= 1
            /\ \A pub \in PubsOfPath(p) : ledger'[p][1] = Seed(pub)]_vars

\* The same entry has been run twice and both runs appended to its ledger.
C4_Witness ==
    /\ pc = "loop"
    /\ i = 3
    /\ entries[1] = entries[2]
    /\ log # <<>>
    /\ Last(log) = "appended"
    /\ Len(ledger[PubTxtPath(Folder(entries[1]), entries[1].pub)]) > 5

\* C5: ensure_pub_txt creates the ledger with the seed as its only line when
\* it does not exist, and changes no ledger that exists.
C5_EnsureCreatesOrKeeps ==
    [][pc = "ensure" =>
         /\ DOMAIN ledger' = DOMAIN ledger \cup {CurPath}
         /\ \A p \in DOMAIN ledger : ledger'[p] = ledger[p]
         /\ CurPath \notin DOMAIN ledger => ledger'[CurPath] = <<Seed(Cur.pub)>>]_vars

\* ensure_pub_txt has just run on a ledger that held appended lines.
C5_Witness ==
    /\ pc = "append"
    /\ Len(ledger[CurPath]) > 1

\* The for loop is about to evaluate the refresh test for an entry.
AtRefreshTest == pc = "loop" /\ i <= Len(entries)

\* The last request was a token exchange that returned a pair.
JustExchanged ==
    /\ tokenState = "ACTIVE"
    /\ calls # <<>>
    /\ Last(calls).kind \in {"password_grant", "refresh_grant"}

\* C6 as stated: the refresh test is false right after a token exchange and
\* true at every time from expiry - margin on, the boundary included.
C6_DueFromBoundaryOn ==
    /\ JustExchanged => ~IsDueForRefresh(clock, expiry)
    /\ AtRefreshTest /\ clock >= expiry - SafetyMargin
          => IsDueForRefresh(clock, expiry)

\* C6 amended: the refresh test is false right after a token exchange, true
\* at every time after expiry - margin, and false at and before that time.
C6_DueAfterBoundary ==
    /\ JustExchanged => ~IsDueForRefresh(clock, expiry)
    /\ AtRefreshTest =>
          (IsDueForRefresh(clock, expiry) <=> clock > expiry - SafetyMargin)

\* The refresh test is evaluated exactly at expiry - margin.
C6_Witness ==
    /\ AtRefreshTest
    /\ tokenState = "ACTIVE"
    /\ clock = expiry - SafetyMargin

\* C7: when the download request is about to be sent, the token pair in use
\* has not reached its expiry.
C7_FetchOnFreshToken == pc = "download" => clock < expiry

\* A download is about to be sent after the first pair's lifetime has gone
\* by and the pair was replaced.
C7_Witness ==
    /\ pc = "download"
    /\ clock > Lifetime
    /\ issued > 1

\* C8: once a token exchange has failed, no request is sent, no entry is
\* taken and main() moves no further.
C8_FailedIsTerminal ==
    [][tokenState = "FAILED" => calls' = calls /\ i' = i /\ pc' = pc]_vars

\* A refresh failed while entries were left.
C8_Witness ==
    /\ tokenState = "FAILED"
    /\ exc = "refresh_token"
    /\ i <= Len(entries)

\* The step of append_citations in which gpt_normalize raises.
OracleFailStep ==
    /\ pc = "append"
    /\ log' = Append(log, "oracle_failed")

\* C9: a failing chat completion leaves every ledger as it was, raises
\* nothing out of append_citations and hands control back to the for loop
\* for the next entry.
C9_OracleFailureIsolated ==
    [][OracleFailStep =>
         /\ ledger' = ledger
         /\ exc' = ""
         /\ pc' = "loop"
         /\ i' = i + 1]_vars

\* The chat completion failed for an entry that is not the last one.
C9_Witness ==
    /\ pc = "loop"
    /\ log # <<>>
    /\ Last(log) = "oracle_failed"
    /\ i <= Len(entries)

\* C10: a failed download never ends the batch.
C10_FetchFailureNeverAborts == ~(pc = "crashed" /\ exc = "download_xml")

\* The requests of kind k sent in the current loop iteration.
CallsOf(k) == {n \in 1..Len(calls) : calls[n].kind = k}

\* download_xml logged its warning in the current loop iteration.
FetchFailed == "download_failed" \in Range(log)

\* C11: after a failed download the rest of the entry's processing posts no
\* chat completion and appends nothing to a ledger that exists.
C11_FailedFetchSkipsEntry ==
    [][(pc \in {"ensure", "append"} /\ FetchFailed) =>
         /\ calls' = calls
         /\ \A p \in DOMAIN ledger : ledger'[p] = ledger[p]]_vars

\* Start indices of the occurrences of pat in txt.
Occurrences(txt, pat) ==
    {k \in 1..Len(txt) :
        k + Len(pat) - 1 <= Len(txt) /\ SubSeq(txt, k, k + Len(pat) - 1) = pat}

Least(S) == CHOOSE x \in S : \A y \in S : x <= y

\* What C12 says one document contributes, as a list of zero or one text.
StatedContribution(txt) ==
    IF Occurrences(txt, OpenMarker) = {} THEN <<>>
    ELSE LET from == Least(Occurrences(txt, OpenMarker)) + Len(OpenMarker)
             closes == {k \in Occurrences(txt, CloseMarker) : k >= from}
         IN  IF closes = {} THEN <<SubSeq(txt, from, Len(txt))>>
             ELSE <<SubSeq(txt, from, Least(closes) - 1)>>

RECURSIVE StatedBuf(_, _)
StatedBuf(files, order) ==
    IF Len(order) = 0 THEN <<>>
    ELSE StatedContribution(files[order[1]]) \o StatedBuf(files, Tail(order))

\* C12: the extraction result is None exactly when no document holds the
\* opening heading; otherwise it is the stated contributions of the
\* documents, in the order they were listed, joined by newline.
C12_SegmentExtraction ==
    pc = "extracted" =>
        LET files == xml[CurFolder]
        IN  /\ section.order \in Perms(DOMAIN files)
            /\ section.none <=>
                  \A n \in DOMAIN files : Occurrences(files[n], OpenMarker) = {}
            /\ ~section.none =>
                  section.text = JoinNL(StatedBuf(files, section.order))

\* A document whose opening heading is its end contributed the empty string
\* and the result is not None.
C12_Witness ==
    /\ pc = "extracted"
    /\ ~section.none
    /\ section.text = ""

\* append_citations has returned in the current loop iteration.
AppendReturned == pc \in {"loop", "done"} /\ log # <<>>

\* C13: an entry whose segment is None or blank posts no chat completion,
\* and a blank segment is reported as holding no identifier.
C13_NoOracleForBlank ==
    AppendReturned =>
        /\ (section.none \/ Strip(section.text) = "") => CallsOf("oracle") = {}
        /\ (~section.none /\ Strip(section.text) = "") => Last(log) = "no_ids"

\* A blank segment that is not None has been handled.
C13_Witness ==
    /\ AppendReturned
    /\ ~section.none
    /\ Strip(section.text) = ""

\* A row with a populated A and an empty B or C precedes every row with an
\* empty A.
HasInvalidRow(rs) ==
    \E k \in 1..Len(rs) :
        /\ \A j \in 1..k : Strip(rs[j].a) # ""
        /\ Strip(rs[k].b) = "" \/ Strip(rs[k].c) = ""

\* C14: a sheet with such a row makes load_entries raise, and from then on
\* nothing happens: no request, no entry, no ledger.
C14_ValidationBeforeNetwork ==
    [][/\ (pc = "load" /\ HasInvalidRow(rows)) =>
            /\ pc' = "crashed"
            /\ exc' = "load_entries"
            /\ calls' = <<>>
            /\ entries' = <<>>
            /\ DOMAIN ledger' = {}
       /\ exc # "load_entries"]_vars

\* load_entries has raised on the second row, after a valid first row.
C14_Witness ==
    /\ pc = "crashed"
    /\ exc = "load_entries"
    /\ Len(rows) = 2
    /\ LoadReturns(<<rows[1]>>)
    /\ calls = <<>>

\* C15: the exit status is non-zero when the first token exchange failed
\* and zero at the end of every other run.
C15_ExitStatus ==
    Terminated => (ExitStatus # 0 <=> pc = "auth_failed")

\* C16: one entry, one downloaded document with both headings around a
\* citation, one identifier other than the seed from the oracle: the ledger
\* holds the seed and then that identifier.
C16_Scenario ==
    /\ pc = "done"
    /\ Len(entries) = 1
    /\ xml[Folder(entries[1])] = [n \in {"a.xml"} |-> "h<L>c<S>t"]
    /\ CallsOf("oracle") # {}
    /\ Last(log) \in {"appended", "no_new"}
    /\ Len(ids) = 1
    /\ ids[1] # Seed(entries[1].pub)

C16_EndToEnd ==
    C16_Scenario =>
        ledger[PubTxtPath(Folder(entries[1]), entries[1].pub)]
            = <<Seed(entries[1].pub), ids[1]>>

C16_Witness == C16_Scenario /\ ids = <<"X">>

\* C17: every entry the for loop has finished has a ledger whose first line
\* is its seed.
C17_ProcessedEntryHasLedger ==
    pc \in {"loop", "download", "ensure", "append", "done", "crashed"} =>
        \A k \in 1..(i - 1) :
            LET p == PubTxtPath(Folder(entries[k]), entries[k].pub)
            IN  /\ p \in DOMAIN ledger
                /\ Len(ledger[p]) >= 1
                /\ ledger[p][1] = Seed(entries[k].pub)

\* An entry whose download failed and whose folder holds no citation heading
\* has been finished and left a ledger with the seed alone.
C17_Witness ==
    /\ pc = "loop"
    /\ i > 1
    /\ log = <<"download_failed", "no_section">>
    /\ ledger[PubTxtPath(Folder(entries[i - 1]), entries[i - 1].pub)]
          = <<Seed(entries[i - 1].pub)>>

\* C18: a download presents the access token of the last pair issued, a
\* refresh presents the refresh token of the last pair issued, and a newly
\* issued pair replaces access, refresh and expiry together.
C18_TokenReplacedWholesale ==
    [][/\ (pc = "download" /\ calls' # calls) =>
            /\ Last(calls').kind = "fetch"
            /\ Last(calls').token = issued
            /\ issued >= 1
       /\ (pc = "loop" /\ calls' # calls /\ calls' # <<>>) =>
            /\ Last(calls').kind = "refresh_grant"
            /\ Last(calls').token = issued
            /\ issued >= 1
       /\ issued' # issued =>
            /\ access' = issued'
            /\ refresh' = issued'
            /\ expiry' = clock' + Lifetime]_vars

\* A download went out with the pair a refresh had just returned.
C18_Witness ==
    /\ pc = "ensure"
    /\ Len(calls) = 2
    /\ calls[1] = Call("refresh_grant", 1)
    /\ calls[2] = Call("fetch", 2)

====
